---- MODULE Spec2Model ----
(***************************************************************************)
(* Connect4Game (src/connect4.py): the engine object, start_game,          *)
(* place_token and the win scans, as a state machine over the object's     *)
(* fields and the outcome of the last call.                                *)
(***************************************************************************)
EXTENDS Integers, Sequences, FiniteSets, TLC

\* ------------------------------------------------------------------------
\* Program constants
\* ------------------------------------------------------------------------
COLUMNS == 7
ROWS == 6

\* Python's None, for names and cells (strings) and for exceptions.
None == "None"
\* self.board = None: no board yet.
NoBoard == << >>
\* self.current_player_index = None.
NoIndex == -1
\* column argument: << >> is "no column" (None), <<c>> is the column c.
NoColumn == << >>

reserved_names == {"Computer1", "Computer2"}

\* ------------------------------------------------------------------------
\* Bounds
\* ------------------------------------------------------------------------
\* calls explored after the recorded prefix a behaviour starts from
MaxSteps == 2
\* out-of-range column arguments tried on each side of [0, COLUMNS)
ColSlack == 1
\* empty cells left on the boards a round is played to its end from
MaxOpen == 3

Max(a, b) == IF a >= b THEN a ELSE b
Min(a, b) == IF a <= b THEN a ELSE b

Rows == 0 .. (ROWS - 1)
Cols == 0 .. (COLUMNS - 1)

\* ------------------------------------------------------------------------
\* Construction
\* ------------------------------------------------------------------------
\* __init__ without the reserved-name test on player2
Connect4Game_first_name_only(player1, player2) ==
  IF player1 \in reserved_names THEN [raised |-> "ValueError"]
  ELSE LET p1 == IF player1 = None THEN "Computer1" ELSE player1
           p2 == IF player2 = None THEN "Computer2" ELSE player2
       IN IF p1 = p2 THEN [raised |-> "ValueError"]
          ELSE [ raised |-> None,
                 self |-> [ players |-> [i \in 0..1 |-> IF i = 0 THEN p1 ELSE p2],
                            scores |-> [n \in {p1, p2} |-> 0],
                            board |-> NoBoard,
                            winner |-> None,
                            current_player |-> None,
                            current_player_index |-> NoIndex,
                            game_over |-> FALSE ] ]

\* __init__: raised is "ValueError" when a name is reserved or the resolved
\* names are equal; otherwise self is the constructed object.
Connect4Game(player1, player2) ==
  IF player1 \in reserved_names THEN [raised |-> "ValueError"]
  ELSE IF player2 \in reserved_names THEN [raised |-> "ValueError"]
  ELSE LET p1 == IF player1 = None THEN "Computer1" ELSE player1
           p2 == IF player2 = None THEN "Computer2" ELSE player2
       IN IF p1 = p2 THEN [raised |-> "ValueError"]
          ELSE [ raised |-> None,
                 self |-> [ players |-> [i \in 0..1 |-> IF i = 0 THEN p1 ELSE p2],
                            scores |-> [n \in {p1, p2} |-> 0],
                            board |-> NoBoard,
                            winner |-> None,
                            current_player |-> None,
                            current_player_index |-> NoIndex,
                            game_over |-> FALSE ] ]

\* ------------------------------------------------------------------------
\* Queries
\* ------------------------------------------------------------------------
\* is_game_over as "there is a winner": a drawn game is not over
is_game_over_winner_only(self) == self.winner # None

is_game_over(self) == self.game_over

get_winner(self) == self.winner

get_current_player(self) == self.current_player

\* is_current_player_computer with the second reserved name forgotten
is_current_player_computer_first_only(self) ==
  IF self.current_player = "Computer1" THEN TRUE ELSE FALSE

is_current_player_computer(self) ==
  IF self.current_player = "Computer1" \/ self.current_player = "Computer2"
  THEN TRUE ELSE FALSE

\* the range test with "<=": column 0 is refused
is_placement_valid_from_one(self, column) ==
  IF self.board # NoBoard /\ column # NoColumn
  THEN IF column[1] <= 0 \/ column[1] >= COLUMNS
       THEN FALSE
       ELSE \E i \in Rows : self.board[i][column[1]] = None
  ELSE FALSE

is_placement_valid(self, column) ==
  IF self.board # NoBoard /\ column # NoColumn
  THEN IF column[1] < 0 \/ column[1] >= COLUMNS
       THEN FALSE
       ELSE \E i \in Rows : self.board[i][column[1]] = None
  ELSE FALSE

\* ------------------------------------------------------------------------
\* Win detection
\* ------------------------------------------------------------------------
\* for i in range(row, ROWS): stop at the first cell not owned by player
RECURSIVE ScanUp(_, _, _, _, _)
ScanUp(board, player, i, column, top) ==
  IF i >= ROWS THEN top
  ELSE IF board[i][column] # player THEN top
  ELSE ScanUp(board, player, i + 1, column, Max(top, i))

\* for i in range(row, -1, -1)
RECURSIVE ScanDown(_, _, _, _, _)
ScanDown(board, player, i, column, bottom) ==
  IF i < 0 THEN bottom
  ELSE IF board[i][column] # player THEN bottom
  ELSE ScanDown(board, player, i - 1, column, Min(bottom, i))

\* for i in range(column, -1, -1)
RECURSIVE ScanLeft(_, _, _, _, _)
ScanLeft(board, player, row, i, left) ==
  IF i < 0 THEN left
  ELSE IF board[row][i] # player THEN left
  ELSE ScanLeft(board, player, row, i - 1, Min(left, i))

\* for i in range(column, COLUMNS)
RECURSIVE ScanRight(_, _, _, _, _)
ScanRight(board, player, row, i, right) ==
  IF i >= COLUMNS THEN right
  ELSE IF board[row][i] # player THEN right
  ELSE ScanRight(board, player, row, i + 1, Max(right, i))

\* the four "while True" walks of __has_diagonal_win: step from pos by
\* (dr, dc) while the next cell is on the board and owned by player
RECURSIVE Walk(_, _, _, _, _)
Walk(board, player, pos, dr, dc) ==
  LET new_row == pos[1] + dr
      new_column == pos[2] + dc
  IN IF (new_row < 0 \/ new_row >= ROWS) \/ (new_column < 0 \/ new_column >= COLUMNS)
     THEN pos
     ELSE IF board[new_row][new_column] # player THEN pos
     ELSE Walk(board, player, <<new_row, new_column>>, dr, dc)

has_vertical_win(board, row, column) ==
  LET player == board[row][column]
  IN IF player = None THEN FALSE
     ELSE LET top == ScanUp(board, player, row, column, row)
              bottom == ScanDown(board, player, row, column, row)
          IN top - bottom + 1 >= 4

\* the horizontal length test with ">": four in a row is not enough
has_horizontal_win_five(board, row, column) ==
  LET player == board[row][column]
  IN IF player = None THEN FALSE
     ELSE LET left == ScanLeft(board, player, row, column, column)
              right == ScanRight(board, player, row, column, column)
          IN right - left + 1 > 4

has_horizontal_win(board, row, column) ==
  LET player == board[row][column]
  IN IF player = None THEN FALSE
     ELSE LET left == ScanLeft(board, player, row, column, column)
              right == ScanRight(board, player, row, column, column)
          IN right - left + 1 >= 4

\* __has_diagonal_win without its second pair of walks
has_diagonal_win_one_diagonal(board, row, column) ==
  LET player == board[row][column]
  IN IF player = None THEN FALSE
     ELSE LET top_left == Walk(board, player, <<row, column>>, -1, -1)
              bottom_right == Walk(board, player, <<row, column>>, 1, 1)
          IN IF bottom_right[1] - top_left[1] + 1 >= 4 THEN TRUE
             ELSE FALSE

has_diagonal_win(board, row, column) ==
  LET player == board[row][column]
  IN IF player = None THEN FALSE
     ELSE LET top_left == Walk(board, player, <<row, column>>, -1, -1)
              bottom_right == Walk(board, player, <<row, column>>, 1, 1)
              top_right == Walk(board, player, <<row, column>>, -1, 1)
              bottom_left == Walk(board, player, <<row, column>>, 1, -1)
          IN IF bottom_right[1] - top_left[1] + 1 >= 4 THEN TRUE
             ELSE IF bottom_left[1] - top_right[1] + 1 >= 4 THEN TRUE
             ELSE FALSE

check_win(board, row, column) ==
  LET player == board[row][column]
  IN IF player = None THEN FALSE
     ELSE has_vertical_win(board, row, column)
          \/ has_horizontal_win(board, row, column)
          \/ has_diagonal_win(board, row, column)

\* ------------------------------------------------------------------------
\* start_game and place_token
\* ------------------------------------------------------------------------
\* [[None] * COLUMNS for _ in range(ROWS)]
EmptyBoard == [i \in Rows |-> [j \in Cols |-> None]]

\* start_game without "self.winner = None"
start_game_keeps_winner(self, first) ==
  LET new == [self EXCEPT !.board = EmptyBoard,
                          !.current_player_index = first,
                          !.current_player = self.players[first],
                          !.game_over = FALSE]
  IN [self |-> new, raised |-> None, returned |-> new.board]

\* start_game without "self.game_over = False"
start_game_keeps_flag(self, first) ==
  LET new == [self EXCEPT !.board = EmptyBoard,
                          !.current_player_index = first,
                          !.current_player = self.players[first],
                          !.winner = None]
  IN [self |-> new, raised |-> None, returned |-> new.board]

\* start_game with the current player always taken from seat 0
start_game_first_seat(self, first) ==
  LET new == [self EXCEPT !.board = EmptyBoard,
                          !.current_player_index = first,
                          !.current_player = self.players[0],
                          !.game_over = FALSE,
                          !.winner = None]
  IN [self |-> new, raised |-> None, returned |-> new.board]

\* first is the value of random.randint(0, 1)
start_game(self, first) ==
  LET new == [self EXCEPT !.board = EmptyBoard,
                          !.current_player_index = first,
                          !.current_player = self.players[first],
                          !.game_over = FALSE,
                          !.winner = None]
  IN [self |-> new, raised |-> None, returned |-> new.board]

\* a raise that comes after the turn has been advanced
RaiseAfterAdvance(self, kind) ==
  [self |-> [self EXCEPT !.current_player_index = (@ + 1) % 2,
                         !.current_player = self.players[(self.current_player_index + 1) % 2]],
   raised |-> kind, returned |-> NoBoard]

\* a raise statement of place_token: the object is as it was, nothing is
\* returned
Raise(self, kind) == [self |-> self, raised |-> kind, returned |-> NoBoard]

\* the row search run from the top row down
HighestEmptyRow(board, column) ==
  IF \E i \in Rows : board[i][column] = None
  THEN CHOOSE i \in Rows : /\ board[i][column] = None
                           /\ \A k \in Rows : board[k][column] = None => i >= k
  ELSE -1

\* for i in range(ROWS): the first i with board[i][column] is None, or -1
LowestEmptyRow(board, column) ==
  IF \E i \in Rows : board[i][column] = None
  THEN CHOOSE i \in Rows : /\ board[i][column] = None
                           /\ \A k \in Rows : board[k][column] = None => i <= k
  ELSE -1

\* the cell test inverted: filled unless some cell is occupied
IsFilledInverted(board) == \A i \in Rows : \A j \in Cols : board[i][j] = None

\* the nested loop over all cells, filled unless some cell is None
IsFilled(board) == \A i \in Rows : \A j \in Cols : board[i][j] # None

\* the advance with a step of 2: the seat stays
NextIndexStays(current_player_index) == (current_player_index + 2) % 2

NextIndex(current_player_index) == (current_player_index + 1) % 2

\* the score assigned instead of incremented
AddScoreAssigns(scores, player) == [scores EXCEPT ![player] = 1]

AddScore(scores, player) == [scores EXCEPT ![player] = @ + 1]

\* "column is None" written "not column": column 0 counts as missing
MissingColumnFalsy(column) == column = NoColumn \/ column = <<0>>

\* "column is None" on a human's turn
MissingColumn(column) == column = NoColumn

\* column is the argument (NoColumn or <<c>>); draw is the column the
\* computer's sampling loop ends with (the loop leaves only on a valid column)
place_token(self, column, draw) ==
  IF is_game_over(self) THEN Raise(self, "RuntimeError")
  ELSE IF is_current_player_computer(self) /\ column # NoColumn
  THEN Raise(self, "ValueError")
  ELSE IF ~is_current_player_computer(self) /\ MissingColumn(column)
  THEN Raise(self, "ValueError")
  ELSE IF ~is_current_player_computer(self) /\ ~is_placement_valid(self, column)
  \* building the message, str + int, raises TypeError before the ValueError
  THEN Raise(self, "TypeError")
  ELSE LET player == self.current_player
           col == IF is_current_player_computer(self) THEN draw ELSE column[1]
           row == LowestEmptyRow(self.board, col)
           board1 == [self.board EXCEPT ![row][col] = player]
           won == check_win(board1, row, col)
           filled == IsFilled(board1)
           index1 == NextIndex(self.current_player_index)
           new == [self EXCEPT
                     !.board = board1,
                     !.game_over = IF won \/ filled THEN TRUE ELSE @,
                     !.winner = IF won THEN player ELSE @,
                     !.scores = IF won THEN AddScore(@, player) ELSE @,
                     !.current_player_index = index1,
                     !.current_player = self.players[index1]]
       IN [self |-> new, raised |-> None, returned |-> new.board]

\* ------------------------------------------------------------------------
\* Returned values as objects: value is what the object holds, shares names
\* the attribute of self the object is (None: an object of its own)
\* ------------------------------------------------------------------------
\* "return self.<attribute>": the object returned is the engine's own
deepcopy_same_object(obj, attribute) == [value |-> obj, shares |-> attribute]

\* copy.deepcopy(obj), obj being self.<attribute>: a new object, equal to obj
deepcopy(obj, attribute) == [value |-> obj, shares |-> None]

get_scores(self) == deepcopy(self.scores, "scores")

get_player_names(self) == deepcopy(self.players, "players")

\* ------------------------------------------------------------------------
\* What a four-in-a-row is, stated on the board alone
\* ------------------------------------------------------------------------
\* vertical, horizontal, bottom-left to top-right, top-left to bottom-right
\* (row 0 is the bottom row)
Directions == {<<1, 0>>, <<0, 1>>, <<1, 1>>, <<1, -1>>}

\* cell (r, c) is one of 4 consecutive cells along d with one owner
InRunOf4(board, r, c, d) ==
  /\ board[r][c] # None
  /\ \E k \in 0..3 : \A j \in 0..3 :
        LET rr == r + (j - k) * d[1]
            cc == c + (j - k) * d[2]
        IN rr \in Rows /\ cc \in Cols /\ board[rr][cc] = board[r][c]

Connects4(board, r, c) == \E d \in Directions : InRunOf4(board, r, c, d)

\* the cells in which two boards differ
Changed(b1, b2) == {cell \in Rows \X Cols : b1[cell[1]][cell[2]] # b2[cell[1]][cell[2]]}

\* number of occupied cells of column c
RECURSIVE CountFrom(_, _, _)
CountFrom(board, c, i) ==
  IF i >= ROWS THEN 0
  ELSE (IF board[i][c] # None THEN 1 ELSE 0) + CountFrom(board, c, i + 1)

Occupied(board, c) == CountFrom(board, c, 0)

\* ------------------------------------------------------------------------
\* State
\* ------------------------------------------------------------------------
VARIABLES
  self,        \* the Connect4Game object: its fields
  call,        \* the last call made on it: [op, column]
  raised,      \* the exception that call raised, or None
  returned,    \* the board that call returned, NoBoard if it raised
  rounds_won,  \* history: placements so far that completed a four-in-a-row
  placements,  \* history: successful place_token calls since the last start_game
  last_placer, \* history: the owner of the token placed last in this round, or None
  steps,       \* history: calls made since the initial state
  pc,          \* "idle", or "sampling" inside the computer's column loop
  drawn,       \* the column last drawn in that loop, NoColumn outside it
  held         \* a value the caller has kept from an earlier call, or NoHeld

vars == <<self, call, raised, returned, rounds_won, placements, last_placer,
          steps, pc, drawn, held>>

\* the caller holds nothing
NoHeld == [kind |-> "nothing"]

\* One call on the object. c is [op, column, rnd]: rnd is the outcome of the
\* call's random choice (the first seat, the computer's column).
Do(st, c) ==
  CHOOSE after \in
    { LET completed == /\ c.op = "place_token"
                       /\ r.raised = None
                       /\ \E cell \in Changed(st.self.board, r.self.board) :
                             Connects4(r.self.board, cell[1], cell[2])
      IN [ self |-> r.self,
           call |-> [op |-> c.op, column |-> c.column],
           raised |-> r.raised,
           returned |-> r.returned,
           rounds_won |-> st.rounds_won + (IF completed THEN 1 ELSE 0),
           placements |-> IF c.op = "start_game" THEN 0
                          ELSE IF r.raised = None THEN st.placements + 1
                          ELSE st.placements,
           last_placer |-> IF c.op = "start_game" THEN None
                           ELSE IF r.raised = None
                           THEN LET cell == CHOOSE x \in Changed(st.self.board, r.self.board) : TRUE
                                IN r.self.board[cell[1]][cell[2]]
                           ELSE st.last_placer ] :
        r \in { IF c.op = "start_game" THEN start_game(st.self, c.rnd)
                ELSE place_token(st.self, c.column, c.rnd) } } : TRUE

\* ------------------------------------------------------------------------
\* Recorded sessions: the initial states are the states the object is in
\* after a prefix of one of them, replayed through Do
\* ------------------------------------------------------------------------
S(first) == [op |-> "start_game", arg |-> first]
M(cols) == [i \in 1..Len(cols) |-> [op |-> "place_token", arg |-> cols[i]]]

\* four rounds, won vertically, horizontally and on each diagonal by a
\* placement in the middle of the run (the vertical one apart)
RoundVertical == <<S(0)>> \o M(<<6, 2, 6, 5, 6, 1, 6>>)
RoundHorizontal == <<S(1)>> \o M(<<4, 4, 1, 0, 2, 1, 3>>)
RoundAscending == <<S(0)>> \o M(<<2, 1, 3, 3, 1, 3, 3, 1, 0, 2, 2>>)
RoundDescending == <<S(1)>> \o M(<<5, 5, 3, 2, 4, 2, 4, 2, 2, 3, 3>>)

\* two rounds won at the end of a diagonal
RoundAscendingEnd == <<S(0)>> \o M(<<5, 3, 6, 6, 4, 4, 5, 5, 6, 6>>)
RoundDescendingEnd == <<S(1)>> \o M(<<2, 3, 2, 5, 4, 4, 3, 3, 2, 2>>)

\* a round that fills the board with no four-in-a-row
RoundDraw ==
  <<S(0)>> \o M(<<3, 6, 3, 6, 1, 4, 4, 0, 6, 6, 6, 3, 3, 2, 3, 2, 0, 4, 2, 3, 5,
                  5, 4, 2, 6, 5, 5, 5, 2, 0, 0, 0, 0, 4, 2, 5, 1, 4, 1, 1, 1, 1>>)

\* a round won by the placement into the last empty cell
RoundLastCell ==
  <<S(1)>> \o M(<<5, 6, 4, 3, 1, 1, 3, 6, 0, 5, 1, 1, 6, 6, 4, 6, 5, 0, 2, 2, 2,
                  2, 6, 4, 2, 2, 1, 0, 4, 4, 5, 4, 1, 3, 5, 0, 3, 3, 0, 5, 0, 3>>)

\* a session of rounds played one after the other, taken from the last
\* `back` calls of its last round on
Session(before, round, back) ==
  [ops |-> before \o round, from |-> Len(before) + Len(round) - back]

Sessions ==
  { Session(<< >>, RoundVertical, Len(RoundVertical)),
    Session(RoundVertical, RoundHorizontal, 2),
    Session(RoundVertical \o RoundHorizontal, RoundAscending, 2),
    Session(RoundVertical \o RoundHorizontal \o RoundAscending, RoundDescending, 2),
    Session(<< >>, RoundAscendingEnd, 2),
    Session(RoundAscendingEnd, RoundDescendingEnd, 2),
    Session(<< >>, RoundDraw, MaxOpen),
    Session(<< >>, RoundLastCell, 2) }

\* a recorded op as a call in state st: a computer's column is its draw
AsCall(st, o) ==
  IF o.op = "start_game"
  THEN [op |-> "start_game", column |-> NoColumn, rnd |-> o.arg]
  ELSE IF is_current_player_computer(st.self)
  THEN [op |-> "place_token", column |-> NoColumn, rnd |-> o.arg]
  ELSE [op |-> "place_token", column |-> <<o.arg>>, rnd |-> o.arg]

Constructed(player1, player2) ==
  [ self |-> Connect4Game(player1, player2).self,
    call |-> [op |-> "__init__", column |-> NoColumn],
    raised |-> None,
    returned |-> NoBoard,
    rounds_won |-> 0,
    placements |-> 0,
    last_placer |-> None ]

\* the state after ops[i..n], from st; a recorded call never raises
RECURSIVE Replay(_, _, _, _)
Replay(st, ops, i, n) ==
  IF i > n THEN st
  ELSE CHOOSE last \in { IF after.raised # None THEN st
                         ELSE Replay(after, ops, i + 1, n) :
                           after \in {Do(st, AsCall(st, ops[i]))} } : TRUE

\* the names given to the constructor
Names1 == {None, "Alice"}
Names2 == {None, "Bob"}

\* the column arguments tried
ColumnArgs == {NoColumn} \cup {<<c>> : c \in (0 - ColSlack) .. (COLUMNS - 1 + ColSlack)}

Init ==
  \E player1 \in Names1, player2 \in Names2, s \in Sessions :
    \E n \in s.from .. Len(s.ops) :
      LET st == Replay(Constructed(player1, player2), s.ops, 1, n)
      IN /\ self = st.self
         /\ call = st.call
         /\ raised = st.raised
         /\ returned = st.returned
         /\ rounds_won = st.rounds_won
         /\ placements = st.placements
         /\ last_placer = st.last_placer
         /\ steps = 0
         /\ pc = "idle"
         /\ drawn = NoColumn
         /\ held = NoHeld

Current == [self |-> self, call |-> call, raised |-> raised,
            returned |-> returned, rounds_won |-> rounds_won,
            placements |-> placements, last_placer |-> last_placer]

Becomes(st) ==
  /\ self' = st.self
  /\ call' = st.call
  /\ raised' = st.raised
  /\ returned' = st.returned
  /\ rounds_won' = st.rounds_won
  /\ placements' = st.placements
  /\ last_placer' = st.last_placer
  /\ steps' = steps + 1

\* the call has returned or raised: no loop is running, and what the caller
\* holds is as it was
Outside ==
  /\ pc' = "idle"
  /\ drawn' = NoColumn
  /\ held' = held

StartGame ==
  /\ steps < MaxSteps
  /\ \E first \in 0..1 :
       Becomes(Do(Current, [op |-> "start_game", column |-> NoColumn, rnd |-> first]))
  /\ Outside

\* place_token(column), and place_token() on a seat that is not a computer's
PlaceToken ==
  /\ steps < MaxSteps
  /\ \E column \in ColumnArgs :
       /\ column = NoColumn => ~is_current_player_computer(self) \/ is_game_over(self)
       /\ Becomes(Do(Current, [op |-> "place_token", column |-> column, rnd |-> 0]))
  /\ Outside

\* place_token() on a computer's turn: draw is the column the sampling ends with
PlaceTokenComputer ==
  /\ steps < MaxSteps
  /\ ~is_game_over(self)
  /\ is_current_player_computer(self)
  /\ \E draw \in Cols :
       /\ is_placement_valid(self, <<draw>>)
       /\ Becomes(Do(Current, [op |-> "place_token", column |-> NoColumn, rnd |-> draw]))
  /\ Outside

Next == StartGame \/ PlaceToken \/ PlaceTokenComputer

Spec == Init /\ [][Next]_vars

\* ------------------------------------------------------------------------
\* Construction as a step: the constructor's arguments are drawn first, the
\* constructor runs, and the object, if there is one, is then used
\* ------------------------------------------------------------------------
\* no object: the constructor has not run, or it raised
NoObject == [players |-> << >>]

\* the names passed to the constructor
NameArgs == {None, "Computer1", "Computer2", "Alice", "Bob"}

InitNew ==
  \E player1 \in NameArgs, player2 \in NameArgs :
    /\ self = NoObject
    /\ call = [op |-> "new", column |-> NoColumn, player1 |-> player1, player2 |-> player2]
    /\ raised = None
    /\ returned = NoBoard
    /\ rounds_won = 0
    /\ placements = 0
    /\ last_placer = None
    /\ steps = 0
    /\ pc = "idle"
    /\ drawn = NoColumn
    /\ held = NoHeld

\* Connect4Game(player1, player2)
Construct ==
  /\ call.op = "new"
  /\ LET r == Connect4Game(call.player1, call.player2)
     IN /\ self' = IF r.raised = None THEN r.self ELSE NoObject
        /\ raised' = r.raised
  /\ call' = [call EXCEPT !.op = "__init__"]
  /\ UNCHANGED <<returned, rounds_won, placements, last_placer, steps, pc, drawn, held>>

\* the calls of Next, on a constructed object
Use ==
  /\ self # NoObject
  /\ Next

NextNew == Construct \/ Use

SpecNew == InitNew /\ [][NextNew]_vars

\* ------------------------------------------------------------------------
\* A round played to its end, as the client's loop plays it (client.py,
\* "while not is_game_over()"): no start_game, the computer's column loop
\* taken draw by draw
\* ------------------------------------------------------------------------
InitPlay ==
  /\ Init
  /\ self.board # NoBoard
  /\ ROWS * COLUMNS - placements <= MaxOpen

\* place_token(column) by a human, accepted
HumanPlaces ==
  /\ pc = "idle"
  /\ ~is_game_over(self)
  /\ ~is_current_player_computer(self)
  /\ \E c \in Cols :
       /\ is_placement_valid(self, <<c>>)
       /\ Becomes(Do(Current, [op |-> "place_token", column |-> <<c>>, rnd |-> 0]))
  /\ Outside

\* a place_token call that raises
Refused ==
  /\ pc = "idle"
  /\ steps < MaxSteps
  /\ \E column \in ColumnArgs :
       /\ column = NoColumn => ~is_current_player_computer(self) \/ is_game_over(self)
       /\ place_token(self, column, 0).raised # None
       /\ Becomes(Do(Current, [op |-> "place_token", column |-> column, rnd |-> 0]))
  /\ Outside

\* place_token() on a computer's turn, up to the first draw (line 108)
EnterSampling ==
  /\ pc = "idle"
  /\ ~is_game_over(self)
  /\ is_current_player_computer(self)
  /\ pc' = "sampling"
  /\ \E c \in Cols : drawn' = <<c>>
  /\ UNCHANGED <<self, call, raised, returned, rounds_won, placements, last_placer,
                 steps, held>>

\* the loop body (line 110): the column drawn is not valid, another is drawn
Redraw ==
  /\ pc = "sampling"
  /\ ~is_placement_valid(self, drawn)
  /\ \E c \in Cols : drawn' = <<c>>
  /\ UNCHANGED <<self, call, raised, returned, rounds_won, placements, last_placer,
                 steps, pc, held>>

\* a draw of the loop that comes out valid
RedrawValid == Redraw /\ is_placement_valid(self, drawn')

\* the loop is left with a valid column and the token is placed in it
PlaceDrawn ==
  /\ pc = "sampling"
  /\ is_placement_valid(self, drawn)
  /\ Becomes(Do(Current, [op |-> "place_token", column |-> NoColumn, rnd |-> drawn[1]]))
  /\ Outside

NextPlay == HumanPlaces \/ Refused \/ EnterSampling \/ Redraw \/ PlaceDrawn

\* HumanPlaces can be taken / the step is one of HumanPlaces
HumanCanPlace ==
  /\ pc = "idle"
  /\ ~is_game_over(self)
  /\ ~is_current_player_computer(self)
  /\ \E c \in Cols : is_placement_valid(self, <<c>>)

HumanPlaced == pc = "idle" /\ placements' = placements + 1

\* PlaceDrawn can be taken / the step is one of PlaceDrawn
DrawnCanBePlaced == pc = "sampling" /\ is_placement_valid(self, drawn)

DrawnPlaced == pc = "sampling" /\ placements' = placements + 1

\* The loop of the client keeps calling place_token, and random.randint
\* gives every column again and again: weak fairness of HumanPlaces,
\* EnterSampling, RedrawValid and PlaceDrawn (the first and the last written
\* out, with their enabling conditions as state predicates).
SpecPlay ==
  /\ InitPlay /\ [][NextPlay]_vars
  /\ ([]<>(~HumanCanPlace) \/ []<><<HumanPlaced>>_vars)
  /\ WF_vars(EnterSampling)
  /\ WF_vars(RedrawValid)
  /\ ([]<>(~DrawnCanBePlaced) \/ []<><<DrawnPlaced>>_vars)

\* ------------------------------------------------------------------------
\* The caller and the objects it is handed: it keeps what a call returned
\* and writes to it (client.py keeps the board in a variable, and its
\* print_board reverses that list in place)
\* ------------------------------------------------------------------------
\* the object obj, of the given kind, kept from call number at
Kept(kind, obj, at) ==
  [kind |-> kind, value |-> obj.value, shares |-> obj.shares, at |-> at]

\* what the caller holds once the engine has gone on to new by op. An object
\* of its own stays as it is. An object the engine uses follows the engine:
\* place_token writes the cell and the score in place (lines 118 and 123),
\* start_game binds self.board to a new list (line 67)
Aliased(h, op, new) ==
  IF h = NoHeld \/ h.shares = None THEN h
  ELSE IF h.shares = "board"
  THEN IF op = "start_game" THEN [h EXCEPT !.shares = None]
       ELSE [h EXCEPT !.value = new.board]
  ELSE IF h.shares = "scores" THEN [h EXCEPT !.value = new.scores]
  ELSE h

\* board.reverse()
Reversed(board) == [i \in Rows |-> board[ROWS - 1 - i]]

\* the values the caller writes into the object it holds
Writes(h) ==
  IF h.kind = "board"
  THEN {Reversed(h.value), [h.value EXCEPT ![0][0] = "X"]}
  ELSE IF h.kind = "scores"
  THEN {[n \in DOMAIN h.value |-> 0 - 1]}
  ELSE {[h.value EXCEPT ![0] = "X"]}

\* the engine after a write to h: an object the engine uses is the engine's
\* attribute
WrittenThrough(s, h) ==
  IF h.shares = "board" THEN [s EXCEPT !.board = h.value]
  ELSE IF h.shares = "scores" THEN [s EXCEPT !.scores = h.value]
  ELSE IF h.shares = "players" THEN [s EXCEPT !.players = h.value]
  ELSE s

\* the client's object: a human against Computer2 (client.py line 23)
InitCaller ==
  /\ Init
  /\ self.players[0] = "Alice"
  /\ self.players[1] = "Computer2"

\* the call c; the caller keeps the board it returns, or drops it
Call(c) ==
  LET st == Do(Current, c)
  IN /\ Becomes(st)
     /\ pc' = "idle"
     /\ drawn' = NoColumn
     /\ \/ held' = Aliased(held, c.op, st.self)
        \/ /\ st.raised = None
           /\ held' = Kept("board", deepcopy(st.returned, "board"), steps + 1)

CallerStartGame ==
  /\ steps < MaxSteps
  /\ \E first \in 0..1 :
       Call([op |-> "start_game", column |-> NoColumn, rnd |-> first])

CallerPlaceToken ==
  /\ steps < MaxSteps
  /\ \/ \E column \in ColumnArgs :
          /\ column = NoColumn => ~is_current_player_computer(self) \/ is_game_over(self)
          /\ Call([op |-> "place_token", column |-> column, rnd |-> 0])
     \/ /\ ~is_game_over(self)
        /\ is_current_player_computer(self)
        /\ \E draw \in Cols :
             /\ is_placement_valid(self, <<draw>>)
             /\ Call([op |-> "place_token", column |-> NoColumn, rnd |-> draw])

\* a getter that hands out an object; the caller keeps it
Get(op, kind, obj) ==
  /\ steps < MaxSteps
  /\ call' = [op |-> op, column |-> NoColumn]
  /\ raised' = None
  /\ steps' = steps + 1
  /\ held' = Kept(kind, obj, steps + 1)
  /\ UNCHANGED <<self, returned, rounds_won, placements, last_placer, pc, drawn>>

GetScores == Get("get_scores", "scores", get_scores(self))

GetPlayerNames == Get("get_player_names", "players", get_player_names(self))

\* the caller writes to the object it holds (call.op is "write": not a call
\* on the engine)
CallerWrites ==
  /\ steps < MaxSteps
  /\ held # NoHeld
  /\ \E v \in Writes(held) :
       /\ held' = [held EXCEPT !.value = v]
       /\ self' = WrittenThrough(self, [held EXCEPT !.value = v])
  /\ call' = [op |-> "write", column |-> NoColumn]
  /\ steps' = steps + 1
  /\ UNCHANGED <<raised, returned, rounds_won, placements, last_placer, pc, drawn>>

NextCaller ==
  CallerStartGame \/ CallerPlaceToken \/ GetScores \/ GetPlayerNames \/ CallerWrites

SpecCaller == InitCaller /\ [][NextCaller]_vars

\* ------------------------------------------------------------------------
\* Properties
\* ------------------------------------------------------------------------
\* the step is a place_token call that returned a board
Placed == call'.op = "place_token" /\ raised' = None

\* the step is a place_token call that raised
Failed == call'.op = "place_token" /\ raised' # None

\* the seat on move is a computer's
ComputerOnMove == self.current_player \in reserved_names

\* a token can be dropped into column c of the board
CanDrop(board, c) == board # NoBoard /\ c \in Cols /\ Occupied(board, c) < ROWS

\* the step's placement completed a four-in-a-row through the placed cell
Completes4 ==
  \E cell \in Changed(self.board, self'.board) : Connects4(self'.board, cell[1], cell[2])

AllOccupied(board) == \A c \in Cols : Occupied(board, c) = ROWS

\* C1 (as stated): a placement that does not end the game toggles the seat
\* index, and a placement that ends the game leaves the seat index and the
\* current player as they were.
C1_NoAdvanceOnTerminal ==
  [][Placed =>
       IF self'.game_over
       THEN /\ self'.current_player_index = self.current_player_index
            /\ self'.current_player = self.current_player
       ELSE self'.current_player_index = 1 - self.current_player_index]_vars

\* C1 (amended): every successful place_token toggles the seat index
\* (0->1, 1->0) and makes the player of the new seat the current player,
\* whether or not the placement ends the game.
C1_TurnAlwaysToggles ==
  [][Placed =>
       /\ self.current_player_index \in {0, 1}
       /\ self'.current_player_index = 1 - self.current_player_index
       /\ self'.current_player = self.players[1 - self.current_player_index]
       /\ self'.current_player # self.current_player]_vars

\* a placement has just ended the game
C1_Witness ==
  /\ steps > 0
  /\ call.op = "place_token" /\ raised = None
  /\ self.game_over

\* C2: a successful placement by p ends the game with winner p exactly when
\* the placed cell is one of 4 consecutive cells owned by p along the
\* vertical, the horizontal or one of the two diagonals.
C2_WinIffRunThroughPlaced ==
  [][Placed =>
       ((self'.game_over /\ self'.winner = self.current_player) <=> Completes4)]_vars

\* a placement has just won on the top-left to bottom-right diagonal only
C2_Witness ==
  /\ steps > 0
  /\ call.op = "place_token" /\ raised = None
  /\ self.winner # None
  /\ \E r \in Rows, c \in Cols : InRunOf4(self.board, r, c, <<1, -1>>)
  /\ \A r \in Rows, c \in Cols :
       \A d \in Directions \ {<<1, -1>>} : ~InRunOf4(self.board, r, c, d)

\* C3: once the game is over every place_token call raises RuntimeError and
\* leaves the board (and the rest of the object) as it was.
C3_GameOverRejects ==
  [][(self.game_over /\ call'.op = "place_token") =>
       /\ raised' = "RuntimeError"
       /\ self'.board = self.board
       /\ self' = self]_vars

\* a call with a column that could still take a token was rejected after the end
C3_Witness ==
  /\ steps > 0
  /\ call.op = "place_token" /\ raised = "RuntimeError"
  /\ call.column # NoColumn
  /\ CanDrop(self.board, call.column[1])

\* C4: with the game not over and a human on move, place_token(column) with
\* a column out of range or full, or before start_game, raises ValueError.
C4_InvalidColumnIsValueError ==
  [][(/\ call'.op = "place_token"
      /\ ~self.game_over
      /\ ~ComputerOnMove
      /\ call'.column # NoColumn
      /\ ~CanDrop(self.board, call'.column[1])) => raised' = "ValueError"]_vars

\* C5: with the game not over, a column given on a computer's turn and no
\* column on a human's turn raise ValueError; the calls that succeed are
\* exactly a computer's turn with no column and a human's turn with a
\* column that can take a token.
C5_TurnTypeMismatch ==
  [][(call'.op = "place_token" /\ ~self.game_over) =>
       /\ (ComputerOnMove /\ call'.column # NoColumn) => raised' = "ValueError"
       /\ (~ComputerOnMove /\ call'.column = NoColumn) => raised' = "ValueError"
       /\ raised' = None <=>
            \/ ComputerOnMove /\ call'.column = NoColumn
            \/ /\ ~ComputerOnMove /\ call'.column # NoColumn
               /\ CanDrop(self.board, call'.column[1])]_vars

\* a column that could take a token was refused on a computer's turn
C5_Witness ==
  /\ steps > 0
  /\ call.op = "place_token" /\ raised = "ValueError"
  /\ ComputerOnMove
  /\ call.column # NoColumn
  /\ CanDrop(self.board, call.column[1])

\* C6: a place_token call that raises leaves every field of the object as it
\* was, and while a round is in progress a valid call is accepted after it.
C6_FailureLeavesState ==
  /\ [][Failed => self' = self]_vars
  /\ []((call.op = "place_token" /\ raised # None
         /\ self.board # NoBoard /\ ~self.game_over) =>
          \E c \in Cols :
            /\ CanDrop(self.board, c)
            /\ place_token(self, IF ComputerOnMove THEN NoColumn ELSE <<c>>, c).raised = None)

\* a call has just failed in a round in progress
C6_Witness ==
  /\ steps > 0
  /\ call.op = "place_token" /\ raised \in {"ValueError", "TypeError"}
  /\ self.board # NoBoard /\ ~self.game_over
  /\ \E c \in Cols : Occupied(self.board, c) > 0

\* C7: a successful placement writes the current player's name into the
\* lowest empty row of the column (the given one, or the one picked for the
\* computer); the column's count grows by one and no other cell changes.
C7_Gravity ==
  [][Placed =>
       \E c \in Cols :
         /\ call'.column # NoColumn => c = call'.column[1]
         /\ LET r == Occupied(self.board, c)
            IN /\ r < ROWS
               /\ \A k \in Rows : (k < r) <=> (self.board[k][c] # None)
               /\ self'.board = [self.board EXCEPT ![r][c] = self.current_player]
               /\ Changed(self.board, self'.board) = {<<r, c>>}
         /\ Occupied(self'.board, c) = Occupied(self.board, c) + 1]_vars

\* a token has just been placed on top of another one
C7_Witness ==
  /\ steps > 0
  /\ call.op = "place_token" /\ raised = None
  /\ \E c \in Cols : Occupied(self.board, c) >= 2 /\ Occupied(self.board, c) < ROWS
  /\ returned = self.board

\* the two scores added up
ScoreSum(scores) == scores[self.players[0]] + scores[self.players[1]]

\* C8: a placement that completes a four-in-a-row adds exactly one to the
\* placing player's score and leaves the opponent's; a placement that does
\* not (a draw included), a failed place_token and start_game leave both
\* scores; the two scores add up to the number of rounds won.
C8_Scores ==
  /\ [][IF Placed /\ Completes4
        THEN /\ self'.winner = self.current_player
             /\ self'.scores =
                  [self.scores EXCEPT ![self.current_player] = self.scores[self.current_player] + 1]
             /\ \A n \in DOMAIN self.scores \ {self.current_player} :
                  self'.scores[n] = self.scores[n]
        ELSE self'.scores = self.scores]_vars
  /\ [](ScoreSum(self.scores) = rounds_won)

\* a new round has been started with a won round behind each player
C8_Witness ==
  /\ steps > 0
  /\ call.op = "start_game"
  /\ \A n \in DOMAIN self.scores : self.scores[n] >= 1
  /\ rounds_won >= 2

\* C9: a placement that fills the last empty cell without completing a
\* four-in-a-row ends the game with no winner and no score change.
C9_Draw ==
  [][(Placed /\ AllOccupied(self'.board) /\ ~Completes4) =>
       /\ ~self.game_over
       /\ self'.game_over
       /\ self'.winner = None
       /\ self'.scores = self.scores]_vars

\* the board has just been filled and nobody has won
C9_Witness ==
  /\ steps > 0
  /\ call.op = "place_token" /\ raised = None
  /\ AllOccupied(self.board)
  /\ self.game_over /\ self.winner = None
  /\ \A r \in Rows, c \in Cols : ~Connects4(self.board, r, c)

\* C10: start_game, in any state, leaves all 42 cells empty, the game-over
\* flag false, the winner unset and one of the two seats on move, returns
\* the empty board and keeps names and scores; either seat can come out.
C10_StartGameResets ==
  /\ [][call'.op = "start_game" =>
          /\ raised' = None
          /\ DOMAIN self'.board = Rows
          /\ \A r \in Rows : DOMAIN self'.board[r] = Cols
          /\ \A r \in Rows, c \in Cols : self'.board[r][c] = None
          /\ Cardinality(Rows \X Cols) = 42
          /\ ~self'.game_over
          /\ self'.winner = None
          /\ self'.current_player_index \in {0, 1}
          /\ self'.current_player = self.players[self'.current_player_index]
          /\ returned' = self'.board
          /\ self'.players = self.players
          /\ self'.scores = self.scores]_vars
  /\ []({start_game(self, first).self.current_player : first \in 0..1}
          = {self.players[0], self.players[1]})

\* start_game has just been called after a won round, seat 1 to move
C10_Witness ==
  /\ steps > 0
  /\ call.op = "start_game"
  /\ self.current_player_index = 1
  /\ rounds_won >= 1
  /\ ~self.game_over /\ self.winner = None

\* the topmost cell of column c is empty
TopEmpty(board, c) == board[ROWS - 1][c] = None

\* C11: is_placement_valid(column) is true exactly when there is a board,
\* column is in [0, 7) and the topmost cell of the column is empty; it is
\* false below 0, from 7 on, for a full column, for no column and before
\* start_game.
C11_PlacementValid ==
  \A column \in ColumnArgs :
    /\ is_placement_valid(self, column) <=>
         /\ self.board # NoBoard
         /\ column # NoColumn
         /\ column[1] >= 0 /\ column[1] < 7
         /\ TopEmpty(self.board, column[1])
    /\ (column = NoColumn \/ self.board = NoBoard) => ~is_placement_valid(self, column)
    /\ (column # NoColumn /\ (column[1] < 0 \/ column[1] >= 7)) =>
         ~is_placement_valid(self, column)
    /\ (column # NoColumn /\ column[1] \in Cols /\ self.board # NoBoard
        /\ Occupied(self.board, column[1]) = ROWS) => ~is_placement_valid(self, column)

\* a round in progress with a full column next to one that is not
C11_Witness ==
  /\ steps > 0
  /\ self.board # NoBoard /\ ~self.game_over
  /\ \E c \in Cols : ~TopEmpty(self.board, c) /\ ~is_placement_valid(self, <<c>>)
  /\ \E c \in Cols : TopEmpty(self.board, c) /\ Occupied(self.board, c) > 0
                     /\ is_placement_valid(self, <<c>>)

\* C12: gravity: a cell is occupied only if every cell below it in its
\* column is occupied.
C12_GravityInvariant ==
  self.board # NoBoard =>
    \A r \in Rows, c \in Cols :
      self.board[r][c] # None => \A k \in 0 .. (r - 1) : self.board[k][c] # None

\* a placement has just raised a column to three tokens or more
C12_Witness ==
  /\ steps > 0
  /\ call.op = "place_token" /\ raised = None
  /\ \E c \in Cols : Occupied(self.board, c) >= 3 /\ self.board[0][c] # None
  /\ \E c \in Cols : Occupied(self.board, c) = 0

\* C16: while a round is in progress the board has no 4 consecutive cells of
\* one owner in any direction, anywhere, and some column is not full.
C16_NoRunWhileInProgress ==
  (self.board # NoBoard /\ ~self.game_over) =>
    /\ \A r \in Rows, c \in Cols : ~Connects4(self.board, r, c)
    /\ \E c \in Cols : Occupied(self.board, c) < ROWS

\* a round still in progress with a full column and seven tokens or more
C16_Witness ==
  /\ steps > 0
  /\ call.op = "place_token" /\ raised = None
  /\ ~self.game_over
  /\ placements >= 7
  /\ \E c \in Cols : Occupied(self.board, c) = ROWS

InProgress == ~self.game_over
Won == self.game_over /\ self.winner # None
Drawn == self.game_over /\ self.winner = None

\* C17: the winner is set only when the game is over, is one of the two
\* players and is the player of the last successful placement; a game over
\* with no winner has all 42 cells occupied; exactly one of in progress, won
\* and drawn holds.
C17_Outcome ==
  /\ self.winner # None =>
       /\ self.game_over
       /\ self.winner \in {self.players[0], self.players[1]}
       /\ self.winner = last_placer
  /\ Drawn =>
       /\ self.board # NoBoard
       /\ Cardinality({cell \in Rows \X Cols : self.board[cell[1]][cell[2]] # None}) = 42
  /\ Cardinality({k \in 1..3 : <<InProgress, Won, Drawn>>[k]}) = 1

\* a call has been refused in a won game: the outcome stands
C17_Witness ==
  /\ steps > 0
  /\ Won
  /\ call.op = "place_token" /\ raised # None
  /\ placements < 42

\* C18: in a round in progress on a human's turn place_token(c) succeeds
\* exactly when is_placement_valid(c); once the game is over place_token(c)
\* fails whatever is_placement_valid(c) says.
C18_ValidIffAccepted ==
  [][(call'.op = "place_token" /\ call'.column # NoColumn) =>
       /\ (self.board # NoBoard /\ ~self.game_over /\ ~ComputerOnMove) =>
            (raised' = None <=> is_placement_valid(self, call'.column))
       /\ self.game_over => raised' # None]_vars

\* a column is_placement_valid accepts has been refused after the end
C18_Witness ==
  /\ steps > 0
  /\ self.game_over
  /\ call.op = "place_token" /\ raised # None
  /\ call.column # NoColumn
  /\ is_placement_valid(self, call.column)
  /\ ~ComputerOnMove

\* the number of cells player owns
Owned(board, player) ==
  Cardinality({cell \in Rows \X Cols : board[cell[1]][cell[2]] = player})

\* C19: every occupied cell holds the name of one of the two players, the
\* two players' token counts differ by at most one, and within a round no
\* player makes two successful placements in a row.
C19_Alternation ==
  /\ [](self.board # NoBoard =>
          /\ \A r \in Rows, c \in Cols :
               self.board[r][c] \in {None, self.players[0], self.players[1]}
          /\ Owned(self.board, self.players[0]) - Owned(self.board, self.players[1])
               \in {-1, 0, 1})
  /\ [][Placed =>
          \A cell \in Changed(self.board, self'.board) :
            /\ self'.board[cell[1]][cell[2]] # last_placer
            /\ self'.board[cell[1]][cell[2]] = last_placer']_vars

\* the second seat's player has just placed, one token behind before
C19_Witness ==
  /\ steps > 0
  /\ call.op = "place_token" /\ raised = None
  /\ placements >= 2
  /\ last_placer = self.players[1]
  /\ Owned(self.board, self.players[0]) = Owned(self.board, self.players[1])

\* the name a constructor argument resolves to in seat i
Resolved(name, i) ==
  IF name # None THEN name ELSE IF i = 0 THEN "Computer1" ELSE "Computer2"

\* C13: construction raises ValueError if a given name is "Computer1" or
\* "Computer2", in either seat, or if the two resolved names are equal;
\* otherwise it gives an object with missing names defaulted to "Computer1"
\* and "Computer2", both scores zero, no board, the game-over flag false and
\* no winner.
C13_Construction ==
  [][call.op = "new" =>
       LET p1 == Resolved(call.player1, 0)
           p2 == Resolved(call.player2, 1)
       IN IF \/ call.player1 \in {"Computer1", "Computer2"}
             \/ call.player2 \in {"Computer1", "Computer2"}
             \/ p1 = p2
          THEN raised' = "ValueError" /\ self' = NoObject
          ELSE /\ raised' = None
               /\ self'.players[0] = p1 /\ self'.players[1] = p2
               /\ DOMAIN self'.scores = {p1, p2}
               /\ self'.scores[p1] = 0 /\ self'.scores[p2] = 0
               /\ self'.board = NoBoard
               /\ ~self'.game_over
               /\ self'.winner = None]_vars

\* the constructor has refused a reserved name given for the second seat
C13_Witness ==
  /\ call.op = "__init__"
  /\ raised = "ValueError"
  /\ call.player1 = "Alice"
  /\ call.player2 = "Computer2"
  /\ self = NoObject

\* C14: whenever the computer's column loop is reached some column can take
\* a token; the loop is left, and the token is placed in the column last
\* drawn, which can take it.
C14_SamplingTerminates ==
  /\ [](pc = "sampling" => \E c \in Cols : CanDrop(self.board, c))
  /\ (pc = "sampling") ~> (pc = "idle")
  /\ [][(pc = "sampling" /\ pc' = "idle") =>
          /\ Placed
          /\ drawn # NoColumn
          /\ CanDrop(self.board, drawn[1])
          /\ \A cell \in Changed(self.board, self'.board) : cell[2] = drawn[1]]_vars

\* the loop is running on a draw of a full column
C14_Witness ==
  /\ pc = "sampling"
  /\ drawn # NoColumn
  /\ Occupied(self.board, drawn[1]) = ROWS
  /\ \E c \in Cols : CanDrop(self.board, c)

\* the number of occupied cells
Tokens(board) == Cardinality({cell \in Rows \X Cols : board[cell[1]][cell[2]] # None})

\* C20: a round ends: the successful place_token calls since start_game are
\* as many as the tokens on the board, at most 42, the game is over when they
\* are 42, and a round that is played on reaches game over.
C20_RoundEnds ==
  /\ [](/\ placements = Tokens(self.board)
        /\ placements <= 42
        /\ placements = 42 => self.game_over)
  /\ <>(self.game_over /\ (self.winner # None \/ AllOccupied(self.board)))

\* the 42nd placement of a round has just been made
C20_Witness ==
  /\ steps > 0
  /\ call.op = "place_token" /\ raised = None
  /\ placements = 42
  /\ self.game_over

\* a step that is a call of start_game or place_token
EngineCall == steps' = steps + 1 /\ call'.op \in {"start_game", "place_token"}

\* C15: a value the caller is handed (the board by start_game and by a
\* successful place_token, the scores by get_scores, the names by
\* get_player_names) equals the engine's value right after the call; a write
\* of the caller to it leaves the engine as it was; a later call of the engine
\* leaves it as it was.
C15_SnapshotIndependent ==
  [][/\ (EngineCall /\ held' # NoHeld /\ held'.at = steps')
          => (raised' = None /\ held'.kind = "board" /\ held'.value = self'.board)
     /\ (steps' = steps + 1 /\ call'.op = "get_scores")
          => (held'.kind = "scores" /\ held'.value = self'.scores /\ self' = self)
     /\ (steps' = steps + 1 /\ call'.op = "get_player_names")
          => (held'.kind = "players" /\ held'.value = self'.players /\ self' = self)
     /\ (steps' = steps + 1 /\ call'.op = "write") => self' = self
     /\ (EngineCall /\ held # NoHeld /\ held' # NoHeld /\ held'.at = held.at)
          => held'.value = held.value]_vars

\* the caller holds a board taken before the last placement, and the
\* engine's board is another
C15_Witness ==
  /\ steps > 1
  /\ held # NoHeld
  /\ held.kind = "board"
  /\ held.at < steps
  /\ call.op = "place_token"
  /\ raised = None
  /\ held.value # self.board

====
